---- MODULE Spec2Model ----
(***************************************************************************)
(* Gig lifecycle of the oodoo backend (src/routes/gigs.js): create gig,    *)
(* accept gig (a Firestore transaction) and update gig status (a plain     *)
(* read followed by a plain write), run by concurrent HTTP requests.       *)
(* The document store is modelled by its contract: single-document writes  *)
(* are atomic, a transaction commits all its buffered writes in one step   *)
(* if the documents it read are unchanged and is re-run otherwise, and     *)
(* any call may be rejected by the store.  Every user has at most one      *)
(* request in flight; requests of different users interleave at every      *)
(* store call.  What a handler does before its first store call returns    *)
(* is seen by no other request, so a request arrives in the step in which  *)
(* that call returns.                                                      *)
(*                                                                         *)
(* Spec     the gig lifecycle under concurrent requests of signed-in users *)
(* SpecSeq  the guarded routes (verifyToken, list by user, lifecycle) with *)
(*          requests of any credential, handled one at a time              *)
(* SpecChat the chat controller (src/unnamed/part_001): join, send, typing *)
(* SpecJoin the chat's joins and sends, with the record of what one        *)
(*          connection is sent                                             *)
(***************************************************************************)
EXTENDS Integers, Sequences, FiniteSets, TLC

\* ---------------------------------------------------------------- bounds
MaxWrites == 4    \* writes the store commits in one behaviour
MaxInFlight == 2  \* requests being handled at the same time
NumUsers == 3     \* authenticated users
NumConns == 2     \* socket connections of the chat
MaxMsgs == 2      \* chat messages sent in one behaviour
MaxTime == 1      \* latest value of the server's clock (new Date())

\* ------------------------------------------------------------- constants
MaxAttempts == 5  \* attempts of db.runTransaction (library default)

Users == 1..NumUsers
\* The gig document that is followed.  Every handler addresses one gig
\* document, by its id, and none reads or writes two; the id is unknown to
\* the store until the gig is posted.
GigIds == {1}
\* The users that post it.  User ids are only ever compared for equality
\* (with the gig's userId), so which user posts the gig makes no difference.
Posters == {1}
NoUser == 0
NoTime == 0

\* The Authorization header of a request: absent, without a second word
\* (no token), with a token jwt.verify rejects (garbage, wrong signature,
\* expired) or one it accepts; userId is the userId the token's payload
\* states, if any.
Credential(k, u) == [kind |-> k, userId |-> u]
Credentials ==
  {Credential(k, NoUser) : k \in {"absent", "noToken"}}
    \cup {Credential(k, u) : k \in {"invalid", "valid"},
                             u \in Users \cup {NoUser}}
NoCred == Credential("none", NoUser)
\* the credential of user u: a token the server has signed for u
Token(u) == Credential("valid", u)

validStatuses == {"open", "accepted", "completed", "cancelled"}
\* request bodies of PATCH /gigs/:id/status: the valid values and one other
StatusInputs == validStatuses \cup {"bogus"}

\* the socket connections
Conns == 1..NumConns
\* the gig ids that name chat rooms and message subcollections (any value a
\* client sends is taken: nothing checks that the gig exists)
ChatGigs == {1}
\* the userId a client puts in a sendMessage or typing event (not checked)
ChatUsers == {1}
\* document ids of chat messages: add() draws the id of a new document at
\* random; the documents are numbered here in the order of the add() calls
MsgIds == 1..MaxMsgs

VARIABLES
  gigs,         \* collection 'gigs': GigIds -> gig document
  assignments,  \* gigs/{id}/assignments: GigIds -> Users -> document
  history,      \* gigs/{id}/assignments/{uid}/history, by creation time
  clock,        \* commit time of the store (server timestamps)
  statusWrites, \* GigIds -> number of status updates written to the gig
  reqs,         \* Users -> the user's HTTP request in flight, if any
  resp,         \* the HTTP response sent by the latest step, if any
  rooms,        \* ChatGigs -> connections joined to the gig's room
  messages,     \* chats/{gigId}/messages: ChatGigs -> set of documents
  now,          \* the latest value new Date() has returned
  added,        \* the number of add() calls made so far
  sends,        \* the sendMessage handlers that have not returned yet
  joins,        \* Conns -> the joinGigChat query of the connection, if any
  emitted,      \* the socket event emitted by the latest step, if any
  replayed,     \* the gigs whose chatHistory the watched connection was sent
  got           \* ids of the documents whose data was sent to it

gigVars == <<gigs, assignments, history, clock, statusWrites, reqs, resp>>
\* what one client has been sent so far (kept by no handler: observed)
sentVars == <<replayed, got>>
chatVars == <<rooms, messages, now, added, sends, joins, emitted, sentVars>>
vars == <<gigs, assignments, history, clock, statusWrites, reqs, resp,
          rooms, messages, now, added, sends, joins, emitted, replayed, got>>

NoGig == [exists |-> FALSE, userId |-> NoUser, status |-> "none",
          createdAt |-> NoTime, acceptedBy |-> NoUser, acceptedAt |-> NoTime,
          updateTime |-> NoTime]
NoAssignment == [exists |-> FALSE, gigId |-> 0, userId |-> NoUser,
                 currentStatus |-> "none", createdAt |-> NoTime,
                 updatedAt |-> NoTime]

\* ------------------------------------------------- documents (pure parts)

\* POST /gigs: the document added for caller u at commit time t
gigData(u, t) ==
  [exists |-> TRUE, userId |-> u, status |-> "open", createdAt |-> t,
   acceptedBy |-> NoUser, acceptedAt |-> NoTime, updateTime |-> t]

\* accept: transaction.update(gigRef, gigUpdate)
gigUpdate(doc, u, t) ==
  [doc EXCEPT !.acceptedBy = u, !.status = "accepted", !.acceptedAt = t,
              !.updateTime = t]

\* accept: transaction.set(assignmentRef, assignmentData)
assignmentData(g, u, t) ==
  [exists |-> TRUE, gigId |-> g, userId |-> u, currentStatus |-> "accepted",
   createdAt |-> t, updatedAt |-> t]

\* accept: historyData
historyData(u, t) ==
  [status |-> "accepted", timestamp |-> t, changedBy |-> u]

historyRef_FixedId(h, e) == <<e>>

\* accept: historyRef = assignmentRef.collection('history').doc() is a new
\* document with an auto-generated id, so set(historyRef, e) adds e to the
\* subcollection, the latest in creation order
historyRef(h, e) == Append(h, e)

statusUpdate_ClearsAcceptor(doc, s, t) ==
  [doc EXCEPT !.status = s, !.updateTime = t, !.acceptedBy = NoUser,
              !.acceptedAt = NoTime]

\* PATCH status: gigRef.update({ status })
statusUpdate(doc, s, t) ==
  [doc EXCEPT !.status = s, !.updateTime = t]

verifyToken_NoVerify(cred) ==
  IF cred.kind \in {"absent", "noToken"} THEN 401
  ELSE IF cred.userId = NoUser THEN 403
  ELSE 0

\* verifyToken: the status code the middleware answers, 0 if it calls next()
verifyToken(cred) ==
  IF cred.kind \in {"absent", "noToken"} THEN 401
  ELSE IF cred.kind = "invalid" THEN 403
  ELSE IF cred.userId = NoUser THEN 403
  ELSE 0

\* verifyToken: req.userId = decoded.userId
reqUserId(cred) == cred.userId

ListCheck_NoCheck(u, target) == 0

\* GET /gigs/user/:userId: the check before the query (0: go on to it)
ListCheck(u, target) == IF u # target THEN 403 ELSE 0

\* GET /gigs/user/:userId: the documents of where('userId', '==', userId)
where(target) == {g \in GigIds : gigs[g].exists /\ gigs[g].userId = target}

AcceptCheck_StatusFirst(doc, u) ==
  IF ~doc.exists THEN 404
  ELSE IF doc.status # "open" THEN 400
  ELSE IF doc.userId = u THEN 403
  ELSE 0

AcceptCheck_NoCreatorCheck(doc, u) ==
  IF ~doc.exists THEN 404
  ELSE IF doc.status # "open" THEN 400
  ELSE 0

AcceptCheck_NoOpenCheck(doc, u) ==
  IF ~doc.exists THEN 404
  ELSE IF doc.userId = u THEN 403
  ELSE 0

\* accept: the checks of the transaction body and the status code the
\* thrown error is mapped to (0: no error thrown)
AcceptCheck(doc, u) ==
  IF ~doc.exists THEN 404
  ELSE IF doc.userId = u THEN 403
  ELSE IF doc.status # "open" THEN 400
  ELSE 0

UpdateCheck_NoCreatorCheck(doc, u) ==
  IF ~doc.exists THEN 404 ELSE 0

UpdateCheck_OpenOnly(doc, u) ==
  IF ~doc.exists THEN 404
  ELSE IF doc.userId # u THEN 403
  ELSE IF doc.status # "open" THEN 400
  ELSE 0

\* PATCH status: the checks after gigRef.get() (0: go on to the write)
UpdateCheck(doc, u) ==
  IF ~doc.exists THEN 404
  ELSE IF doc.userId # u THEN 403
  ELSE 0

\* ------------------------------------------------------------- requests
\* a request in flight and the position of its handler: pc names the store
\* call the handler awaits, readTime the update time of the gig document the
\* transaction read, attempts the runs of the transaction body so far
Request(k, g, s, p) ==
  [kind |-> k, gig |-> g, status |-> s, pc |-> p, readTime |-> NoTime,
   attempts |-> 0, cred |-> NoCred, target |-> NoUser]
Idle == Request("none", 0, "none", "idle")
\* the request as the middleware passes it on: with its credential
Authorized(cred, rq) == [rq EXCEPT !.cred = cred]

\* res.status(code).json(...) for the request rq of caller u
Response(u, rq, code) ==
  [caller |-> u, kind |-> rq.kind, gig |-> rq.gig, status |-> rq.status,
   code |-> code, attempts |-> rq.attempts, cred |-> rq.cred,
   target |-> rq.target, list |-> {}]
NoResp == Response(NoUser, Idle, 0)

InFlight == {u \in Users : reqs[u].pc # "idle"}
\* ids the store has not assigned yet
FreeIds == {g \in GigIds : ~gigs[g].exists}

\* the handler of u's request rq returns after sending the status code
Respond(u, rq, code) ==
  /\ reqs' = [reqs EXCEPT ![u] = Idle]
  /\ resp' = Response(u, rq, code)

\* the handler of u's request rq waits for its next store call
Goto(u, rq) ==
  /\ reqs' = [reqs EXCEPT ![u] = rq]
  /\ resp' = NoResp

\* the handler of u's request is resumed by the store call pc it awaits
Awaits(u, pc) ==
  /\ resp = NoResp
  /\ reqs[u].pc = pc

\* a request of user u arrives
Arrives(u) ==
  /\ resp = NoResp
  /\ reqs[u].pc = "idle"
  /\ Cardinality(InFlight) < MaxInFlight

\* a request with the credential cred arrives at a route guarded by
\* verifyToken, and the middleware calls next(): the handler runs
Passes(cred) ==
  /\ resp = NoResp
  /\ verifyToken(cred) = 0
  /\ Arrives(reqUserId(cred))

\* ------------------------------------------------------ chat (pure parts)
\* sendMessage: msgData = { userId, message, timestamp: new Date() }
msgData(u, m, t) == [userId |-> u, message |-> m, timestamp |-> t]
NoMsg == msgData(NoUser, "", -1)
\* a document of chats/{gigId}/messages: its id and its data
MsgDoc(id, data) == [id |-> id, data |-> data]
\* the message bodies clients send
ChatTexts == {"hi"}

\* a sendMessage handler that has not returned: pc is "add" while it awaits
\* the add and "emit" once the document is written
Send(c, g, id, data, pc) ==
  [conn |-> c, gig |-> g, id |-> id, data |-> data, pc |-> pc]
\* a joinGigChat handler whose query has not answered
Join(g) == [gig |-> g]
NoJoin == Join(0)

\* an emitted socket event: its name, the connection whose handler emits
\* it, the gig of its room, the connections it is sent to and its payload
\* (msg for newMessage, list for chatHistory, user for userTyping)
Emit(e, c, g, to, msg, list, user) ==
  [event |-> e, from |-> c, gig |-> g, to |-> to, msg |-> msg,
   list |-> list, user |-> user]
NoEmit == Emit("none", 0, 0, {}, NoMsg, <<>>, NoUser)

\* the id of the document the next add() creates
NextMsgId == added + 1

\* the sequences that list every document of S once
Listings(S) ==
  {f \in [1..Cardinality(S) -> S] :
     \A i, j \in 1..Cardinality(S) : i # j => f[i] # f[j]}
\* doc.data() of every document of the listing f
DataOf(f) == [i \in 1..Len(f) |-> f[i].data]

orderBy_Unordered(S) == {DataOf(f) : f \in Listings(S)}

\* joinGigChat: collection.orderBy('timestamp').get() mapped by doc.data().
\* The query lists the documents by ascending timestamp; documents with the
\* same timestamp come in the order of their ids, which add() draws at
\* random, so that every order of them is a result the query can give
orderBy(S) ==
  {DataOf(f) : f \in {h \in Listings(S) :
     \A i, j \in 1..Cardinality(S) :
       i < j => h[i].data.timestamp <= h[j].data.timestamp}}

ioTo_AllSockets(g) == Conns

\* io.to(gigId): the connections in the gig's room
ioTo(g) == rooms[g]

socketTo_WithSender(c, g) == rooms[g]

\* socket.to(gigId): the connections in the gig's room except the socket
socketTo(c, g) == rooms[g] \ {c}

\* socket.emit: the socket itself
socketEmit(c) == {c}

Init ==
  /\ rooms = [g \in ChatGigs |-> {}]
  /\ messages = [g \in ChatGigs |-> {}]
  /\ now = 0
  /\ added = 0
  /\ sends = {}
  /\ joins = [c \in Conns |-> NoJoin]
  /\ emitted = NoEmit
  /\ replayed = {}
  /\ got = {}
  /\ gigs = [g \in GigIds |-> NoGig]
  /\ assignments = [g \in GigIds |-> [u \in Users |-> NoAssignment]]
  /\ history = [g \in GigIds |-> [u \in Users |-> <<>>]]
  /\ clock = 0
  /\ statusWrites = [g \in GigIds |-> 0]
  /\ reqs = [u \in Users |-> Idle]
  /\ resp = NoResp

\* ---------------------------------------------------------- POST /gigs
\* the whole handler: the body is validated against the schema (400), then
\* gigData is added to the collection under a new id (201)
CreateGig(cred, valid) ==
  /\ Passes(cred)
  /\ LET u == reqUserId(cred)
     IN IF valid
        THEN /\ FreeIds # {}
             /\ clock < MaxWrites
             /\ LET g == CHOOSE x \in FreeIds : \A y \in FreeIds : x <= y
                    t == clock + 1
                IN /\ gigs' = [gigs EXCEPT ![g] = gigData(u, t)]
                   /\ clock' = t
                   /\ Respond(u, Authorized(cred,
                                Request("create", g, "none", "idle")), 201)
        ELSE /\ Respond(u, Authorized(cred,
                           Request("create", 0, "none", "idle")), 400)
             /\ UNCHANGED <<gigs, clock>>
  /\ UNCHANGED <<assignments, history, statusWrites, chatVars>>

\* --------------------------------------------------- POST /gigs/:id/accept
TxnBody_PartialWrite(u, rq) ==
  LET g == rq.gig
      code == AcceptCheck(gigs[g], u)
  IN IF code # 0
     THEN /\ Respond(u, rq, code)
          /\ assignments' = [assignments EXCEPT
                               ![g][u] = assignmentData(g, u, clock)]
          /\ UNCHANGED <<gigs, history, clock, statusWrites, chatVars>>
     ELSE /\ Goto(u, [rq EXCEPT !.pc = "txCommit",
                                !.readTime = gigs[g].updateTime])
          /\ UNCHANGED <<gigs, assignments, history, clock,
                         statusWrites, chatVars>>

\* one run of the transaction body for u's request rq: transaction.get
\* returns the gig; a thrown error rolls the transaction back and is mapped
\* to 404/403/400; otherwise the three writes are buffered and the commit
\* is sent
TxnBody(u, rq) ==
  /\ LET code == AcceptCheck(gigs[rq.gig], u)
     IN IF code # 0
        THEN Respond(u, rq, code)
        ELSE Goto(u, [rq EXCEPT !.pc = "txCommit",
                                !.readTime = gigs[rq.gig].updateTime])
  /\ UNCHANGED <<gigs, assignments, history, clock, statusWrites, chatVars>>

\* the request arrives and the transaction body runs for the first time
AcceptBegin(cred, g) ==
  /\ Passes(cred)
  /\ TxnBody(reqUserId(cred),
             [Authorized(cred, Request("accept", g, "none", "txGet"))
                EXCEPT !.attempts = 1])

\* the transaction body runs again after a refused commit
AcceptRetry(u) ==
  /\ Awaits(u, "txGet")
  /\ TxnBody(u, reqs[u])

TxnValid_NoValidation(u) == TRUE

\* the document read by the transaction has not been written since
TxnValid(u) == gigs[reqs[u].gig].updateTime = reqs[u].readTime

AcceptCommit_NoHistory(u) ==
  /\ Awaits(u, "txCommit")
  /\ clock < MaxWrites
  /\ TxnValid(u)
  /\ LET g == reqs[u].gig
         t == clock + 1
     IN /\ gigs' = [gigs EXCEPT ![g] = gigUpdate(@, u, t)]
        /\ assignments' = [assignments EXCEPT ![g][u] = assignmentData(g, u, t)]
        /\ clock' = t
        /\ Respond(u, reqs[u], 200)
  /\ UNCHANGED <<history, statusWrites, chatVars>>

\* the commit succeeds: gig update, assignment and history entry are written
\* in one step; 200
AcceptCommit(u) ==
  /\ Awaits(u, "txCommit")
  /\ clock < MaxWrites
  /\ TxnValid(u)
  /\ LET g == reqs[u].gig
         t == clock + 1
     IN /\ gigs' = [gigs EXCEPT ![g] = gigUpdate(@, u, t)]
        /\ assignments' = [assignments EXCEPT ![g][u] = assignmentData(g, u, t)]
        /\ history' = [history EXCEPT
                         ![g][u] = historyRef(@, historyData(u, t))]
        /\ clock' = t
        /\ Respond(u, reqs[u], 200)
  /\ UNCHANGED <<statusWrites, chatVars>>

\* the commit is refused because the gig was written after the read: the
\* body is run again with a fresh read, or the transaction gives up (500)
AcceptConflict(u) ==
  /\ Awaits(u, "txCommit")
  /\ ~TxnValid(u)
  /\ IF reqs[u].attempts < MaxAttempts
     THEN Goto(u, [reqs[u] EXCEPT !.pc = "txGet", !.readTime = NoTime,
                                  !.attempts = @ + 1])
     ELSE Respond(u, reqs[u], 500)
  /\ UNCHANGED <<gigs, assignments, history, clock, statusWrites, chatVars>>

\* --------------------------------------------------- PATCH /gigs/:id/status
\* the handler up to its second await: the status value is validated (400),
\* gigRef.get() returns the gig: 404, 403, or the update call is sent
UpdateBegin(cred, g, s) ==
  /\ Passes(cred)
  /\ LET u == reqUserId(cred)
         rq == Authorized(cred, Request("update", g, s, "idle"))
     IN IF s \notin validStatuses
        THEN Respond(u, rq, 400)
        ELSE LET code == UpdateCheck(gigs[g], u)
             IN IF code # 0
                THEN Respond(u, rq, code)
                ELSE Goto(u, [rq EXCEPT !.pc = "update"])
  /\ UNCHANGED <<gigs, assignments, history, clock, statusWrites, chatVars>>

\* gigRef.update({ status }) resolves; 200
UpdateWrite(u) ==
  /\ Awaits(u, "update")
  /\ clock < MaxWrites
  /\ LET g == reqs[u].gig
         t == clock + 1
     IN /\ gigs' = [gigs EXCEPT ![g] = statusUpdate(@, reqs[u].status, t)]
        /\ statusWrites' = [statusWrites EXCEPT ![g] = @ + 1]
        /\ clock' = t
        /\ Respond(u, reqs[u], 200)
  /\ UNCHANGED <<assignments, history, chatVars>>

\* ------------------------------------------------------------ the store
\* the store rejects the first call of an arriving request (the add of a
\* valid create, the get of an accept or of an update with a valid status):
\* the catch block answers 500 and nothing is written
RejectFirst(cred, k, g, s) ==
  /\ Passes(cred)
  /\ \/ k = "create" /\ reqUserId(cred) \in Posters /\ g = 0 /\ s = "none"
     \/ k = "accept" /\ g \in GigIds /\ s = "none"
     \/ k = "update" /\ g \in GigIds /\ s \in validStatuses
  /\ Respond(reqUserId(cred),
             [Authorized(cred, Request(k, g, s, "idle"))
                EXCEPT !.attempts = IF k = "accept" THEN 1 ELSE 0], 500)
  /\ UNCHANGED <<gigs, assignments, history, clock, statusWrites, chatVars>>

\* the store rejects the call a request in flight is waiting for: the catch
\* block answers 500 and nothing is written
StoreFail(u) ==
  /\ resp = NoResp
  /\ reqs[u].pc # "idle"
  /\ Respond(u, reqs[u], 500)
  /\ UNCHANGED <<gigs, assignments, history, clock, statusWrites, chatVars>>

\* the response written by the latest step has left the server
Deliver ==
  /\ resp # NoResp
  /\ resp' = NoResp
  /\ UNCHANGED <<gigs, assignments, history, clock, statusWrites,
                 reqs, chatVars>>

\* the requests of signed-in users: each presents its token
Next ==
  \/ \E u \in Posters, valid \in BOOLEAN : CreateGig(Token(u), valid)
  \/ \E u \in Users, g \in GigIds : AcceptBegin(Token(u), g)
  \/ \E u \in Users : AcceptRetry(u)
  \/ \E u \in Users : AcceptCommit(u)
  \/ \E u \in Users : AcceptConflict(u)
  \/ \E u \in Users, g \in GigIds, s \in StatusInputs :
        UpdateBegin(Token(u), g, s)
  \/ \E u \in Users : UpdateWrite(u)
  \/ \E u \in Users, k \in {"create", "accept", "update"},
        g \in GigIds \cup {0}, s \in validStatuses \cup {"none"} :
        RejectFirst(Token(u), k, g, s)
  \/ \E u \in Users : StoreFail(u)
  \/ Deliver

Spec == Init /\ [][Next]_vars

\* ===================================================== the guarded routes
\* the routes of the gigs router that verifyToken guards
ProtectedRoutes == {"create", "list", "accept", "update"}

\* a request with the credential cred arrives at the guarded route k and
\* verifyToken answers it (401, 403): next() is not called
AuthReject(cred, k) ==
  /\ resp = NoResp
  /\ verifyToken(cred) # 0
  /\ resp' = Response(NoUser, Authorized(cred, Request(k, 0, "none", "idle")),
                      verifyToken(cred))
  /\ UNCHANGED <<gigs, assignments, history, clock, statusWrites, reqs,
                 chatVars>>

\* GET /gigs/user/:userId up to its await: 403 for another user's list, or
\* the query is sent
ListBegin(cred, target) ==
  /\ Passes(cred)
  /\ LET u == reqUserId(cred)
         rq == [Authorized(cred, Request("list", 0, "none", "idle"))
                  EXCEPT !.target = target]
     IN IF ListCheck(u, target) # 0
        THEN Respond(u, rq, ListCheck(u, target))
        ELSE Goto(u, [rq EXCEPT !.pc = "list"])
  /\ UNCHANGED <<gigs, assignments, history, clock, statusWrites, chatVars>>

\* the query answers: res.json(gigs), 200
ListReply(u) ==
  /\ Awaits(u, "list")
  /\ reqs' = [reqs EXCEPT ![u] = Idle]
  /\ resp' = [Response(u, reqs[u], 200) EXCEPT !.list = where(reqs[u].target)]
  /\ UNCHANGED <<gigs, assignments, history, clock, statusWrites, chatVars>>

\* no request is being handled
Quiet == InFlight = {}

\* The server handling one request at a time, whatever credential it comes
\* with.  No commit of a transaction is refused then (C19_State), so that
\* the transaction body never runs again.
NextSeq ==
  \/ \E cred \in Credentials, k \in ProtectedRoutes : AuthReject(cred, k)
  \/ \E cred \in Credentials, valid \in BOOLEAN :
        Quiet /\ reqUserId(cred) \in Posters /\ CreateGig(cred, valid)
  \/ \E cred \in Credentials, target \in Users :
        Quiet /\ ListBegin(cred, target)
  \/ \E u \in Users : ListReply(u)
  \/ \E cred \in Credentials, g \in GigIds : Quiet /\ AcceptBegin(cred, g)
  \/ \E u \in Users : AcceptCommit(u)
  \/ \E cred \in Credentials, g \in GigIds, s \in StatusInputs :
        Quiet /\ UpdateBegin(cred, g, s)
  \/ \E u \in Users : UpdateWrite(u)
  \/ \E cred \in Credentials, k \in {"create", "accept", "update"},
        g \in GigIds \cup {0}, s \in validStatuses \cup {"none"} :
        Quiet /\ RejectFirst(cred, k, g, s)
  \/ \E u \in Users : StoreFail(u)
  \/ Deliver

SpecSeq == Init /\ [][NextSeq]_vars

\* ================================================================== chat
\* (src/unnamed/part_001; the gig collections are not touched)

JoinBegin_QueryOnly(c, g) ==
  /\ emitted = NoEmit
  /\ joins[c] = NoJoin
  /\ joins' = [joins EXCEPT ![c] = Join(g)]
  /\ UNCHANGED <<rooms, messages, now, added, sends, emitted, gigVars>>

\* joinGigChat up to its store call: socket.join(gigId), then the query of
\* the gig's messages is sent
JoinBegin(c, g) ==
  /\ emitted = NoEmit
  /\ joins[c] = NoJoin
  /\ rooms' = [rooms EXCEPT ![g] = @ \cup {c}]
  /\ joins' = [joins EXCEPT ![c] = Join(g)]
  /\ UNCHANGED <<messages, now, added, sends, emitted, gigVars>>

\* the query answers with the documents the collection holds, in order, and
\* the then-callback emits them to the socket as chatHistory
JoinReply(c) ==
  /\ emitted = NoEmit
  /\ joins[c] # NoJoin
  /\ \E list \in orderBy(messages[joins[c].gig]) :
       emitted' = Emit("chatHistory", c, joins[c].gig, socketEmit(c), NoMsg,
                       list, NoUser)
  /\ joins' = [joins EXCEPT ![c] = NoJoin]
  /\ UNCHANGED <<rooms, messages, now, added, sends, gigVars>>

\* the query is rejected by the store: the promise has no catch, nothing is
\* emitted
JoinFail(c) ==
  /\ emitted = NoEmit
  /\ joins[c] # NoJoin
  /\ joins' = [joins EXCEPT ![c] = NoJoin]
  /\ UNCHANGED <<rooms, messages, now, added, sends, emitted, gigVars>>

\* sendMessage up to its await: msgData is built with the time of the
\* server's clock and the add of a new document is sent
SendBegin(c, g, u, m, t) ==
  /\ emitted = NoEmit
  /\ t >= now
  /\ NextMsgId \in MsgIds
  /\ now' = t
  /\ added' = added + 1
  /\ sends' = sends \cup {Send(c, g, NextMsgId, msgData(u, m, t), "add")}
  /\ UNCHANGED <<rooms, messages, joins, emitted, gigVars>>

\* the store writes the document of the add p
SendPersist(p) ==
  /\ emitted = NoEmit
  /\ p \in sends /\ p.pc = "add"
  /\ messages' = [messages EXCEPT ![p.gig] = @ \cup {MsgDoc(p.id, p.data)}]
  /\ sends' = (sends \ {p}) \cup {[p EXCEPT !.pc = "emit"]}
  /\ UNCHANGED <<rooms, now, added, joins, emitted, gigVars>>

SendFail_Broadcasts(p) ==
  /\ emitted = NoEmit
  /\ p \in sends /\ p.pc = "add"
  /\ sends' = sends \ {p}
  /\ emitted' = Emit("newMessage", p.conn, p.gig, ioTo(p.gig), p.data,
                     <<>>, NoUser)
  /\ UNCHANGED <<rooms, messages, now, added, joins, gigVars>>

\* the store rejects the add p: the await throws, the handler ends there
SendFail(p) ==
  /\ emitted = NoEmit
  /\ p \in sends /\ p.pc = "add"
  /\ sends' = sends \ {p}
  /\ UNCHANGED <<rooms, messages, now, added, joins, emitted, gigVars>>

\* the await of the add p returns: io.to(gigId).emit('newMessage', msgData)
SendEmit(p) ==
  /\ emitted = NoEmit
  /\ p \in sends /\ p.pc = "emit"
  /\ sends' = sends \ {p}
  /\ emitted' = Emit("newMessage", p.conn, p.gig, ioTo(p.gig), p.data,
                     <<>>, NoUser)
  /\ UNCHANGED <<rooms, messages, now, added, joins, gigVars>>

\* typing: socket.to(gigId).emit('userTyping', userId)
Typing(c, g, u) ==
  /\ emitted = NoEmit
  /\ emitted' = Emit("userTyping", c, g, socketTo(c, g), NoMsg, <<>>, u)
  /\ UNCHANGED <<rooms, messages, now, added, sends, joins, gigVars>>

\* the connection closes: socket.io takes the socket out of every room and
\* what its handlers emit to it from then on reaches nobody; c stands for
\* the client's next connection from here on
Disconnect(c) ==
  /\ emitted = NoEmit
  /\ \E g \in ChatGigs : c \in rooms[g]
  /\ rooms' = [g \in ChatGigs |-> rooms[g] \ {c}]
  /\ joins' = [joins EXCEPT ![c] = NoJoin]
  /\ UNCHANGED <<messages, now, added, sends, emitted, gigVars>>

\* the event emitted by the latest step has left the server
ChatDeliver ==
  /\ emitted # NoEmit
  /\ emitted' = NoEmit
  /\ UNCHANGED <<rooms, messages, now, added, sends, joins, gigVars>>

\* the chat controller by itself: what the clients are sent is not recorded
NextChat ==
  \/ \E c \in Conns, g \in ChatGigs : JoinBegin(c, g) /\ UNCHANGED sentVars
  \/ \E c \in Conns : JoinReply(c) /\ UNCHANGED sentVars
  \/ \E c \in Conns : JoinFail(c) /\ UNCHANGED sentVars
  \/ \E c \in Conns, g \in ChatGigs, u \in ChatUsers, m \in ChatTexts,
        t \in 0..MaxTime : SendBegin(c, g, u, m, t) /\ UNCHANGED sentVars
  \/ \E p \in sends : SendPersist(p) /\ UNCHANGED sentVars
  \/ \E p \in sends : SendFail(p) /\ UNCHANGED sentVars
  \/ \E p \in sends : SendEmit(p) /\ UNCHANGED sentVars
  \/ \E c \in Conns, g \in ChatGigs, u \in ChatUsers :
        Typing(c, g, u) /\ UNCHANGED sentVars
  \/ \E c \in Conns : Disconnect(c) /\ UNCHANGED sentVars
  \/ ChatDeliver /\ UNCHANGED sentVars

SpecChat == Init /\ [][NextChat]_vars

\* ------------------------------------------- the chat as one client sees it
\* the connection whose events are recorded: every connection runs the same
\* handlers, so what holds of this one holds of each
Watched == 1

\* the step takes connection c out of a room: its socket closed
Left(c) == \E g \in ChatGigs : c \in rooms[g] /\ c \notin rooms'[g]

\* the documents whose data the step emits: a chatHistory is made from the
\* documents the query found, a newMessage from the msgData of the handler
\* that returns
Carried ==
  IF emitted'.event = "chatHistory"
    THEN {d.id : d \in messages[emitted'.gig]}
    ELSE IF emitted'.event = "newMessage"
      THEN {p.id : p \in sends \ sends'}
      ELSE {}

\* the record of what the watched connection has been sent since it
\* connected: an emitted event reaches the connections it is addressed to,
\* and a closed connection starts anew
Observe ==
  IF Left(Watched)
    THEN got' = {} /\ replayed' = {}
    ELSE IF Watched \in emitted'.to
      THEN /\ got' = got \cup Carried
           /\ replayed' = IF emitted'.event = "chatHistory"
                             THEN replayed \cup {emitted'.gig}
                             ELSE replayed
      ELSE UNCHANGED <<got, replayed>>

\* joins, sends and disconnections in every interleaving, with the record of
\* what each connection is sent
NextJoin ==
  \/ \E c \in Conns, g \in ChatGigs : JoinBegin(c, g) /\ Observe
  \/ \E c \in Conns : JoinReply(c) /\ Observe
  \/ \E c \in Conns : JoinFail(c) /\ Observe
  \/ \E c \in Conns, g \in ChatGigs, u \in ChatUsers, m \in ChatTexts,
        t \in 0..MaxTime : SendBegin(c, g, u, m, t) /\ Observe
  \/ \E p \in sends : SendPersist(p) /\ Observe
  \/ \E p \in sends : SendFail(p) /\ Observe
  \/ \E p \in sends : SendEmit(p) /\ Observe
  \/ \E c \in Conns : Disconnect(c) /\ Observe
  \/ ChatDeliver /\ Observe

SpecJoin == Init /\ [][NextJoin]_vars

\* ============================================================== properties

\* the users that have accepted gig g: their assignment document exists
Acceptors(g) == {u \in Users : assignments[g][u].exists}
\* the latest step answered an accept request / a status update
AcceptAnswered == resp.kind = "accept"
UpdateAnswered == resp.kind = "update"
\* the step answers a request
Answers == resp = NoResp /\ resp' # NoResp

\* C1: single acceptor.  As long as no status update has been written to a
\* gig, the accept requests made on it by users other than its creator,
\* concurrent or not, have exactly one winner: at most one of them is
\* answered 200; every other one that the store does not fail (500) is
\* answered 400 'not open', and only once the winner has committed; no
\* transaction body is run more than twice; and the gig is accepted with
\* the winner as acceptedBy.
C1_SingleAcceptor ==
  /\ \A g \in GigIds : statusWrites[g] = 0 =>
       /\ Cardinality(Acceptors(g)) <= 1
       /\ gigs[g].exists /\ Acceptors(g) = {} =>
            gigs[g].status = "open" /\ gigs[g].acceptedBy = NoUser
       /\ \A w \in Acceptors(g) :
            gigs[g].status = "accepted" /\ gigs[g].acceptedBy = w
       /\ \A u \in Users : reqs[u].gig = g => reqs[u].attempts <= 2
  /\ AcceptAnswered /\ gigs[resp.gig].exists /\ statusWrites[resp.gig] = 0
       /\ gigs[resp.gig].userId # resp.caller /\ resp.code # 500 =>
       \/ /\ resp.code = 200
          /\ Acceptors(resp.gig) = {resp.caller}
       \/ /\ resp.code = 400
          /\ Acceptors(resp.gig) # {}
          /\ resp.attempts <= 2

\* C1 witness: a user lost the race: its transaction read the gig open, was
\* refused at commit, ran again and was answered 400, another user having won
C1_Witness ==
  /\ AcceptAnswered /\ resp.code = 400 /\ resp.attempts = 2
  /\ statusWrites[resp.gig] = 0
  /\ \E w \in Users \ {resp.caller} : Acceptors(resp.gig) = {w}

\* C2: atomicity of a failed accept.  No step of an accept request other
\* than the one that answers 200 changes the gig documents, the assignments
\* or the histories: not the read, not a refused commit, not the answer
\* 404, 403, 400 or 500.
C2_Step ==
  \A u \in Users :
    /\ reqs'[u] # reqs[u]
    /\ "accept" \in {reqs[u].kind, reqs'[u].kind}
    /\ ~(resp'.caller = u /\ resp'.kind = "accept" /\ resp'.code = 200)
    => UNCHANGED <<gigs, assignments, history>>
C3_Step ==
  Answers /\ resp'.kind = "accept" /\ resp'.code = 200 =>
    LET g == resp'.gig
        u == resp'.caller
    IN /\ clock' > clock
       /\ gigs' = [gigs EXCEPT ![g].status = "accepted", ![g].acceptedBy = u,
                               ![g].acceptedAt = clock',
                               ![g].updateTime = clock']
       /\ assignments' = [assignments EXCEPT ![g][u] =
            [exists |-> TRUE, gigId |-> g, userId |-> u,
             currentStatus |-> "accepted", createdAt |-> clock',
             updatedAt |-> clock']]
       /\ history' = [history EXCEPT ![g][u] =
            Append(@, [status |-> "accepted", timestamp |-> clock',
                       changedBy |-> u])]
C3_Whole ==
  \A g \in GigIds :
    /\ gigs[g].acceptedBy # NoUser <=> gigs[g].acceptedAt # NoTime
    /\ gigs[g].acceptedBy # NoUser => gigs[g].acceptedBy \in Acceptors(g)
    /\ Acceptors(g) # {} => gigs[g].acceptedBy # NoUser
    /\ \A u \in Users : assignments[g][u].exists <=> history[g][u] # <<>>
C3_AcceptEffect == []C3_Whole /\ [][C3_Step]_vars

\* C3 witness: an accept has just been answered 200
C3_Witness ==
  /\ AcceptAnswered /\ resp.code = 200
  /\ gigs[resp.gig].acceptedBy = resp.caller
  /\ Len(history[resp.gig][resp.caller]) = 1

\* C4: at most one acceptor per gig: no gig ever has assignment documents
\* of two distinct users.
C4_AtMostOneAcceptor ==
  \A g \in GigIds : Cardinality(Acceptors(g)) <= 1

\* C5: self-accept rejection.  An accept by the creator of an existing gig
\* is answered 403 whatever the gig's status, unless the store fails (500);
\* its transaction never gets to send a commit, and the answer changes
\* nothing.
C5_Answer ==
  /\ AcceptAnswered /\ gigs[resp.gig].exists
       /\ gigs[resp.gig].userId = resp.caller /\ resp.code # 500 =>
       resp.code = 403 /\ resp.attempts = 1
  /\ \A u \in Users :
       reqs[u].pc = "txCommit" => gigs[reqs[u].gig].userId # u
C5_Step ==
  Answers /\ resp'.kind = "accept" /\ gigs[resp'.gig].exists
    /\ gigs[resp'.gig].userId = resp'.caller
    => UNCHANGED <<gigs, assignments, history, clock, statusWrites>>
C5_SelfAcceptRejected == []C5_Answer /\ [][C5_Step]_vars

\* C5 witness: the creator was answered 403 on its gig that is not open
C5_Witness ==
  /\ AcceptAnswered /\ resp.code = 403
  /\ gigs[resp.gig].userId = resp.caller
  /\ gigs[resp.gig].status \in {"accepted", "completed", "cancelled"}

\* C6: the acceptor of a gig is never its creator.
C6_AcceptorIsNotCreator ==
  \A g \in GigIds :
    gigs[g].acceptedBy # NoUser => gigs[g].acceptedBy # gigs[g].userId

\* C6 witness: a gig accepted by a user and completed by its creator
C6_Witness ==
  \E g \in GigIds :
    gigs[g].acceptedBy # NoUser /\ gigs[g].status = "completed"

\* C7: acceptedBy and acceptedAt are set exactly if the status is accepted,
\* or is completed or cancelled after an acceptance; an open gig has no
\* acceptor and an accepted gig has one.
C7_AcceptorIffAccepted ==
  \A g \in GigIds : gigs[g].exists =>
    /\ gigs[g].acceptedBy # NoUser <=> gigs[g].acceptedAt # NoTime
    /\ gigs[g].acceptedBy # NoUser <=>
         \/ gigs[g].status = "accepted"
         \/ /\ gigs[g].status \in {"completed", "cancelled"}
            /\ Acceptors(g) # {}

\* C8: an assignment document is created once and never deleted or written
\* again: once it exists it stays as it is, createdAt included.
C8_Step ==
  \A g \in GigIds, u \in Users :
    assignments[g][u].exists => assignments'[g][u] = assignments[g][u]
C8_AssignmentCreatedOnce == [][C8_Step]_vars

\* C9: status history is append-only.  Every step leaves each history a
\* prefix of what it becomes, and every entry of a history, the first
\* included, records the accepted transition with the accepting user (the
\* key of the assignment) as actor, later entries having later timestamps.
IsPrefix(h1, h2) ==
  /\ Len(h1) <= Len(h2)
  /\ \A i \in 1..Len(h1) : h1[i] = h2[i]
C9_Step ==
  \A g \in GigIds, u \in Users : IsPrefix(history[g][u], history'[g][u])
C9_First ==
  \A g \in GigIds, u \in Users :
    /\ history[g][u] # <<>> =>
         /\ history[g][u][1].status = "accepted"
         /\ history[g][u][1].changedBy = u
    /\ \A i \in 1..Len(history[g][u]), j \in 1..Len(history[g][u]) :
         i < j => history[g][u][i].timestamp < history[g][u][j].timestamp
C9_HistoryAppendOnly == []C9_First /\ [][C9_Step]_vars

\* C9 witness: a history with two entries, after the creator has put the
\* gig back to open and the same user has accepted it again
C9_Witness ==
  \E g \in GigIds, u \in Users : Len(history[g][u]) = 2

\* C10: update gig status is creator-only and fails without effect.  A
\* status outside validStatuses is answered 400 by the step the request
\* arrives in, so that it never waits for the store; 404 is answered for an
\* absent gig and 403 for a gig of another creator; no step of a status
\* update but the one answering 200 changes a gig, and that one is a request
\* of the creator with a valid status and sets the status to it.
C10_Answer ==
  /\ \A u \in Users :
       reqs[u].kind = "update" => reqs[u].status \in validStatuses
  /\ UpdateAnswered =>
       /\ resp.status \notin validStatuses => resp.code = 400
       /\ resp.code = 400 => resp.status \notin validStatuses
       /\ resp.code = 404 => ~gigs[resp.gig].exists
       /\ resp.code = 403 =>
            gigs[resp.gig].exists /\ gigs[resp.gig].userId # resp.caller
       /\ resp.code = 200 =>
            /\ gigs[resp.gig].exists
            /\ gigs[resp.gig].userId = resp.caller
            /\ resp.status \in validStatuses
            /\ gigs[resp.gig].status = resp.status
       /\ resp.code \in {200, 400, 403, 404, 500}
C10_Step ==
  \A u \in Users :
    /\ reqs'[u] # reqs[u] \/ (resp'.caller = u /\ Answers)
    /\ "update" \in {reqs[u].kind, reqs'[u].kind, resp'.kind}
    /\ ~(resp'.caller = u /\ resp'.kind = "update" /\ resp'.code = 200)
    => UNCHANGED <<gigs, assignments, history, clock, statusWrites>>
C10_UpdateCreatorOnly == []C10_Answer /\ [][C10_Step]_vars

\* C10 witness: a user that is not the creator asked for a valid status on
\* an existing gig and was answered 403, the gig keeping its status
C10_Witness ==
  /\ UpdateAnswered /\ resp.code = 403
  /\ resp.status \in validStatuses
  /\ gigs[resp.gig].status # resp.status

\* C11: update gig status has no precondition on the source state.  A
\* status update with a valid status made by the creator of an existing gig
\* is never answered 400, 403 or 404, whatever the status the gig has: it
\* is sent on to the write and, unless the store fails (500), answered 200
\* by the step that sets the gig's status to the new value, whatever status
\* that step overwrites (accepted or completed back to open included).
C11_Answer ==
  /\ \A u \in Users :
       reqs[u].pc = "update" =>
         /\ gigs[reqs[u].gig].exists
         /\ gigs[reqs[u].gig].userId = u
         /\ reqs[u].status \in validStatuses
  /\ (UpdateAnswered /\ gigs[resp.gig].exists
        /\ gigs[resp.gig].userId = resp.caller
        /\ resp.status \in validStatuses /\ resp.code # 500) =>
       resp.code = 200 /\ gigs[resp.gig].status = resp.status
C11_Step ==
  \A u \in Users :
    (reqs[u].pc = "update" /\ reqs'[u] # reqs[u] /\ resp'.code # 500) =>
      /\ resp' = Response(u, reqs[u], 200)
      /\ gigs'[reqs[u].gig].status = reqs[u].status
C11_NoSourcePrecondition == []C11_Answer /\ [][C11_Step]_vars

\* C11 witness: the creator has put a gig that a user had accepted back to
\* open and was answered 200
C11_Witness ==
  /\ UpdateAnswered /\ resp.code = 200 /\ resp.status = "open"
  /\ gigs[resp.gig].status = "open"
  /\ gigs[resp.gig].acceptedBy # NoUser

\* C12: frame of update gig status.  The step that answers 200 to a status
\* update writes the status field of that one gig document (the store
\* advancing the document's update time) and nothing else: the creator,
\* acceptedBy and acceptedAt of the gig, every assignment document, its
\* currentStatus included, and every history stay as they were; no history
\* entry is appended.
C12_Step ==
  Answers /\ resp'.kind = "update" /\ resp'.code = 200 =>
    /\ gigs' = [gigs EXCEPT ![resp'.gig].status = resp'.status,
                            ![resp'.gig].updateTime = clock']
    /\ UNCHANGED <<assignments, history>>
C12_UpdateFrame == [][C12_Step]_vars

\* C12 witness: a gig was completed by its creator while the assignment of
\* its acceptor still says accepted, with the one history entry of the accept
C12_Witness ==
  /\ UpdateAnswered /\ resp.code = 200 /\ resp.status = "completed"
  /\ \E u \in Users :
       /\ gigs[resp.gig].acceptedBy = u
       /\ assignments[resp.gig][u].currentStatus = "accepted"
       /\ Len(history[resp.gig][u]) = 1

\* ------------------------------------------- properties of guarded routes
\* the store and the handlers under way
storeVars == <<gigs, assignments, history, clock, statusWrites>>
\* a credential verifyToken must not let through
BadCredential(cred) == cred.kind # "valid" \/ cred.userId = NoUser
\* the latest step answered a request for a user's list
ListAnswered == resp.kind = "list" /\ resp.caller \in Users

\* C17: unauthorized listing.  A GET /gigs/user/:userId of an authenticated
\* caller other than userId is answered 403, with no list, by the step it
\* arrives in: it never waits for the store, whose query is only ever sent
\* for the caller's own list; a caller asking for its own list gets, unless
\* the store fails (500), the gigs whose creator it is.
C17_State ==
  /\ \A u \in Users : reqs[u].kind = "list" => reqs[u].target = u
  /\ ListAnswered /\ resp.caller # resp.target =>
       resp.code = 403 /\ resp.list = {}
  /\ ListAnswered /\ resp.caller = resp.target =>
       /\ resp.code \in {200, 500}
       /\ resp.code = 200 =>
            resp.list = {g \in GigIds :
                           gigs[g].exists /\ gigs[g].userId = resp.target}
       /\ resp.code = 500 => resp.list = {}
C17_Step ==
  (Answers /\ resp'.kind = "list" /\ resp'.caller \in Users
     /\ resp'.caller # resp'.target) =>
    /\ reqs[resp'.caller].pc = "idle"
    /\ UNCHANGED <<storeVars, reqs>>
C17_UnauthorizedListing == []C17_State /\ [][C17_Step]_vars

\* C17 witness: a user asked for the list of another user, who has a gig,
\* and was answered 403 with no list
C17_Witness ==
  /\ ListAnswered /\ resp.code = 403
  /\ \E g \in GigIds : gigs[g].exists /\ gigs[g].userId = resp.target

\* C18: authentication gate.  On every guarded route a request with no
\* Authorization header, with a header that holds no token, with a token
\* that fails verification or with a token that states no userId is
\* answered 401 or 403 by the step it arrives in, which starts no handler
\* and reads and writes nothing; every handler under way and every answer
\* of a handler belongs to a request whose token is valid and states the
\* user the handler runs for.
C18_State ==
  /\ \A u \in Users :
       reqs[u].pc # "idle" => reqs[u].cred = Credential("valid", u)
  /\ resp # NoResp =>
       /\ resp.kind \in ProtectedRoutes
       /\ BadCredential(resp.cred) =>
            /\ resp.caller = NoUser
            /\ resp.code \in {401, 403}
            /\ resp.code = 401 <=> resp.cred.kind \in {"absent", "noToken"}
       /\ ~BadCredential(resp.cred) => resp.caller = resp.cred.userId
C18_Step ==
  /\ Answers /\ BadCredential(resp'.cred) => UNCHANGED <<storeVars, reqs>>
  /\ \A u \in Users :
       (reqs[u].pc = "idle" /\ reqs'[u].pc # "idle") =>
         reqs'[u].cred = Credential("valid", u)
C18_AuthenticationGate == []C18_State /\ [][C18_Step]_vars

\* C18 witness: a status update with a token that fails verification and
\* states the creator of the gig as its user was answered 403
C18_Witness ==
  /\ resp.kind = "update" /\ resp.code = 403
  /\ resp.cred.kind = "invalid"
  /\ \E g \in GigIds : gigs[g].exists /\ gigs[g].userId = resp.cred.userId

\* C19: the lifecycle run one request after the other.  A create answered
\* 201 leaves a gig that is open, with the caller as creator and nobody as
\* acceptor.  No commit of a transaction is refused, so that an accept of
\* an open gig by a user other than its creator is answered 200, unless the
\* store fails (500), by the step that makes the gig accepted with that
\* user as acceptedBy; an accept of a gig that is not open by such a user is
\* answered 400 and leaves the gig, acceptedBy included, as it is; a status
\* update of the creator, to completed for one, is answered 200 by the step
\* that sets the status.
C19_State ==
  /\ Cardinality(InFlight) <= 1
  /\ \A u \in Users :
       reqs[u].pc = "txCommit" =>
         /\ TxnValid(u)
         /\ gigs[reqs[u].gig].status = "open"
         /\ gigs[reqs[u].gig].userId # u
         /\ reqs[u].attempts = 1
  /\ resp.kind = "create" /\ resp.code = 201 =>
       /\ gigs[resp.gig].status = "open"
       /\ gigs[resp.gig].userId = resp.caller
       /\ gigs[resp.gig].acceptedBy = NoUser
C19_Step ==
  /\ (Answers /\ resp'.kind = "accept" /\ resp'.caller \in Users
        /\ resp'.code # 500 /\ gigs[resp'.gig].exists
        /\ gigs[resp'.gig].userId # resp'.caller) =>
       IF gigs[resp'.gig].status = "open"
       THEN /\ resp'.code = 200
            /\ gigs'[resp'.gig].status = "accepted"
            /\ gigs'[resp'.gig].acceptedBy = resp'.caller
       ELSE /\ resp'.code = 400
            /\ UNCHANGED storeVars
  /\ (Answers /\ resp'.kind = "update" /\ resp'.caller \in Users
        /\ resp'.code # 500 /\ gigs[resp'.gig].exists
        /\ gigs[resp'.gig].userId = resp'.caller
        /\ resp'.status \in validStatuses) =>
       /\ resp'.code = 200
       /\ gigs'[resp'.gig].status = resp'.status
       /\ gigs'[resp'.gig].acceptedBy = gigs[resp'.gig].acceptedBy
C19_Lifecycle == []C19_State /\ [][C19_Step]_vars

\* C19 witness: the end of the scenario: the creator has completed, and was
\* answered 200, a gig that another user had accepted and that nobody else
\* got: three writes were made, the create, the accept and the update
C19_Witness ==
  /\ UpdateAnswered /\ resp.code = 200 /\ resp.status = "completed"
  /\ gigs[resp.gig].status = "completed"
  /\ gigs[resp.gig].userId = resp.caller
  /\ gigs[resp.gig].acceptedBy \in Users \ {resp.caller}
  /\ Acceptors(resp.gig) = {gigs[resp.gig].acceptedBy}
  /\ clock = 3

\* C20: accept interleaved with the creator's status update.  The step that
\* commits an accept finds the gig open and not written since the
\* transaction read it: it overwrites no status written after that read.
\* If the gig was written in between, the commit is refused and writes
\* nothing: the body runs again (or the transaction gives up, 500), on the
\* gig as it then is, and is answered 400 if the gig is not open.
C20_Step ==
  /\ (Answers /\ resp'.kind = "accept" /\ resp'.code = 200) =>
       /\ reqs[resp'.caller].pc = "txCommit"
       /\ gigs[resp'.gig].status = "open"
       /\ gigs[resp'.gig].updateTime = reqs[resp'.caller].readTime
  /\ \A u \in Users :
       (reqs[u].pc = "txCommit" /\ reqs'[u] # reqs[u]
          /\ gigs[reqs[u].gig].updateTime # reqs[u].readTime) =>
         /\ UNCHANGED storeVars
         /\ \/ resp' = Response(u, reqs[u], 500)
            \/ /\ resp' = NoResp
               /\ reqs'[u] = [reqs[u] EXCEPT !.pc = "txGet",
                                             !.readTime = NoTime,
                                             !.attempts = @ + 1]
  /\ \A u \in Users :
       (reqs[u].pc = "txGet" /\ reqs'[u] # reqs[u]
          /\ gigs[reqs[u].gig].status # "open" /\ resp'.code # 500) =>
         /\ resp' = Response(u, reqs[u], 400)
         /\ UNCHANGED storeVars
C20_AcceptVersusUpdate == [][C20_Step]_vars

\* C20 witness: an accept read the gig open, the creator then cancelled or
\* completed it, the commit was refused, the body ran again and the accept
\* was answered 400: the gig has no acceptor and keeps the creator's status
C20_Witness ==
  /\ AcceptAnswered /\ resp.code = 400 /\ resp.attempts = 2
  /\ statusWrites[resp.gig] = 1
  /\ gigs[resp.gig].status \in {"cancelled", "completed"}
  /\ gigs[resp.gig].acceptedBy = NoUser
  /\ Acceptors(resp.gig) = {}

\* ------------------------------------------------------ chat properties
\* the ids of the documents of a gig's messages / of the adds under way
PersistedIds(g) == {d.id : d \in messages[g]}
SendIds == {p.id : p \in sends}
\* the step emits the socket event e
Emits(e) == emitted = NoEmit /\ emitted'.event = e

\* C13: chat send persists before it broadcasts.  A newMessage is emitted
\* only by a sendMessage handler whose document the store has written
\* before that step, and carries the data of that document; a handler
\* still awaiting its add has written nothing; the step in which the store
\* rejects an add emits nothing and writes nothing, and the message of that
\* add is gone for good: it never is a document and never is broadcast.
C13_State ==
  \A p \in sends :
    /\ p.id \in 1..added
    /\ p.pc = "emit" => MsgDoc(p.id, p.data) \in messages[p.gig]
    /\ p.pc = "add" => \A g \in ChatGigs : p.id \notin PersistedIds(g)
C13_Step ==
  /\ Emits("newMessage") =>
       \E p \in sends :
         /\ p.pc = "emit" /\ sends' = sends \ {p}
         /\ MsgDoc(p.id, p.data) \in messages[p.gig]
         /\ emitted'.msg = p.data /\ emitted'.gig = p.gig
         /\ UNCHANGED messages
  /\ \A p \in sends :
       (p.pc = "add" /\ p.id \notin SendIds'
          /\ p.id \notin PersistedIds(p.gig)') =>
         emitted' = NoEmit /\ UNCHANGED messages
  /\ \A i \in 1..added :
       (i \notin SendIds /\ \A g \in ChatGigs : i \notin PersistedIds(g)) =>
         (i \notin SendIds' /\ \A g \in ChatGigs : i \notin PersistedIds(g)')
C13_PersistBeforeBroadcast == []C13_State /\ [][C13_Step]_vars

\* C13 witness: a message is broadcast, its document written, after the add
\* of an earlier message was rejected and left nothing
C13_Witness ==
  /\ emitted.event = "newMessage"
  /\ added = 2 /\ sends = {}
  /\ PersistedIds(emitted.gig) = {2}
  /\ \E d \in messages[emitted.gig] : d.data = emitted.msg

\* C14: chat send fan-out.  The newMessage of a written message goes to
\* exactly the connections that are in the gig's room when it is emitted:
\* the sender's connection if it is one of them, no connection outside the
\* room; its payload is the data of the written document.
C14_Step ==
  Emits("newMessage") =>
    /\ emitted'.to = rooms[emitted'.gig]
    /\ emitted'.from \in rooms[emitted'.gig] => emitted'.from \in emitted'.to
    /\ \A c \in Conns : c \notin rooms[emitted'.gig] => c \notin emitted'.to
    /\ \E d \in messages[emitted'.gig] : d.data = emitted'.msg
    /\ UNCHANGED rooms
C14_SendFanOut == [][C14_Step]_vars

\* C14 witness: a message is broadcast to its sender, which is in the room,
\* while another connection is outside the room and gets nothing
C14_Witness ==
  /\ emitted.event = "newMessage"
  /\ emitted.from \in emitted.to
  /\ emitted.to = rooms[emitted.gig]
  /\ \E c \in Conns : c \notin emitted.to

\* C15: chat join replay.  The step in which joinGigChat(gigId) arrives puts
\* the connection into the gig's room and emits nothing; the answer to its
\* query is one chatHistory event, sent to the joining connection and to no
\* other, which lists the data of every document of the gig's messages
\* once, by ascending timestamp.
C15_Step ==
  /\ \A c \in Conns :
       (joins[c] = NoJoin /\ joins'[c] # NoJoin) =>
         /\ joins'[c].gig \in ChatGigs
         /\ rooms' = [rooms EXCEPT ![joins'[c].gig] = @ \cup {c}]
         /\ emitted' = NoEmit
  /\ Emits("chatHistory") =>
       LET c == emitted'.from
           g == emitted'.gig
           list == emitted'.list
       IN /\ joins[c] = Join(g) /\ joins'[c] = NoJoin
          /\ emitted'.to = {c}
          /\ Len(list) = Cardinality(messages[g])
          /\ \E f \in Listings(messages[g]) : list = DataOf(f)
          /\ \A i, j \in 1..Len(list) :
               i < j => list[i].timestamp <= list[j].timestamp
          /\ UNCHANGED <<rooms, messages>>
C15_JoinReplay == [][C15_Step]_vars

\* C15 witness: the history sent to a joining connection lists two messages
\* with different timestamps, the earlier first, while another connection is
\* in the room
C15_Witness ==
  /\ emitted.event = "chatHistory"
  /\ Len(emitted.list) = 2
  /\ emitted.list[1].timestamp < emitted.list[2].timestamp
  /\ \E c \in rooms[emitted.gig] : c \notin emitted.to

\* C16: typing signal.  A typing event emits userTyping, with the user id it
\* carries, to the connections of the gig's room other than the sending
\* connection, and to nobody else; it changes no room, no message document
\* and no handler under way.
C16_Step ==
  Emits("userTyping") =>
    /\ emitted'.to = rooms[emitted'.gig] \ {emitted'.from}
    /\ emitted'.from \notin emitted'.to
    /\ \A c \in Conns : c \notin rooms[emitted'.gig] => c \notin emitted'.to
    /\ emitted'.user \in ChatUsers
    /\ UNCHANGED <<rooms, messages, now, added, sends, joins>>
C16_TypingSignal == [][C16_Step]_vars

\* C16 witness: a connection in the room sends typing: the other connection
\* of the room gets userTyping, the sender does not
C16_Witness ==
  /\ emitted.event = "userTyping"
  /\ emitted.from \in rooms[emitted.gig]
  /\ emitted.to # {}
  /\ emitted.from \notin emitted.to

\* C21: no message missed across a join.  A connection is in the gig's room
\* from the step in which its joinGigChat arrives, hence before its query
\* is answered; and once it has been sent the gig's chatHistory, for as
\* long as it stays connected, it has been sent, in that chatHistory or as a
\* newMessage, every document of the gig whose sendMessage handler has
\* returned, however the joins and the sends interleave.
C21_NoMessageMissed ==
  /\ joins[Watched] # NoJoin => Watched \in rooms[joins[Watched].gig]
  /\ \A g \in replayed :
       /\ Watched \in rooms[g]
       /\ PersistedIds(g) \ SendIds \subseteq got

\* C21 witness: the watched connection joined while a sendMessage handler
\* was between its add and its broadcast: the chatHistory it is sent holds
\* that message, which it will be sent again as newMessage, next to a
\* message whose handler returned before
C21_Witness ==
  /\ emitted.event = "chatHistory"
  /\ Watched \in emitted.to
  /\ emitted.gig \in replayed
  /\ \E p \in sends :
       p.pc = "emit" /\ p.gig = emitted.gig /\ p.id \in got
  /\ \E id \in PersistedIds(emitted.gig) \ SendIds : id \in got
====
